---- MODULE Spec2Model ----
(***************************************************************************)
(* A model of NeuroRA's correction utilities (neurora/stuff.py) and of the *)
(* plots of neurora/rsa_plot.py: the matrix plots, the channel-by-time     *)
(* heat maps and the plots of a brain volume.                              *)
(*                                                                         *)
(* A floating-point value is a record: k = "nan", k = "inf" (+infinity) or *)
(* k = "num", the rational n/d in lowest terms with d > 0.  Rounding of    *)
(* IEEE doubles is not modelled: arithmetic is exact.                      *)
(* An array is a record [shape, data]; data is its row-major buffer.      *)
(***************************************************************************)
EXTENDS Integers, Sequences, FiniteSets, TLC

VARIABLES
    fn,        \* the function that was called ("none" before the call)
    p,         \* the array object the caller passes, as it is now
    p0,        \* the contents of that array when the call was made
    mask,      \* datamask's mask_data (a 1-voxel dummy for the other calls)
    threshold, \* correct_by_threshold's threshold (0 for the other calls)
    opts,      \* the options a plotting call was given
    ret,       \* what the call returned
    console,   \* the messages printed, in order
    calls,     \* the calls made to the plotting library, in order
    frame      \* the local variables of a call that is followed step by step

vars == <<fn, p, p0, mask, threshold, opts, ret, console, calls, frame>>

----------------------------------------------------------------------------
(* Bounds of the model *)

\* finite non-zero p-values are 1/100 .. MaxP/100
MaxP == 2
\* a volume has at most MaxSupport voxels that are not 0
MaxSupport == 2
\* thresholds are drawn from -1 .. MaxThreshold
MaxThreshold == 2

----------------------------------------------------------------------------
(* Values *)

Abs(x) == IF x < 0 THEN -x ELSE x

RECURSIVE GCD(_, _)
GCD(a, b) == IF b = 0 THEN a ELSE GCD(b, a % b)

NaN == [k |-> "nan", n |-> 0, d |-> 1]
Inf == [k |-> "inf", n |-> 1, d |-> 1]

\* the rational a/b (b > 0) in lowest terms
Rat(a, b) ==
    LET g == GCD(Abs(a), b)
    IN  IF a = 0 THEN [k |-> "num", n |-> 0, d |-> 1]
        ELSE [k |-> "num", n |-> a \div g, d |-> b \div g]

Zero == Rat(0, 1)
One == Rat(1, 1)

\* math.isnan(x)
isnan(x) == x.k = "nan"

\* x == 0 as numpy and Python evaluate it: false for NaN and for infinity
EqZero(x) == x.k = "num" /\ x.n = 0

\* math.isfinite(x)
IsFinite(x) == x.k = "num"

\* a < b for two values that are not NaN
Less(a, b) ==
    CASE a.k = "inf" -> FALSE
      [] b.k = "inf" -> TRUE
      [] OTHER -> a.n * b.d < b.n * a.d

\* x * c for an integer c >= 0
MulInt(x, c) ==
    CASE x.k = "nan" -> NaN
      [] x.k = "inf" -> IF c = 0 THEN NaN ELSE Inf
      [] OTHER -> Rat(x.n * c, x.d)

\* x * c / (l + 0.5) for integers c >= 1 and l >= 0
MulDivHalf(x, c, l) ==
    CASE x.k = "nan" -> NaN
      [] x.k = "inf" -> Inf
      [] OTHER -> Rat(2 * x.n * c, x.d * (2 * l + 1))

----------------------------------------------------------------------------
(* 3-D arrays *)

Vox(shape) == (0 .. shape[1] - 1) \X (0 .. shape[2] - 1) \X (0 .. shape[3] - 1)

Size(shape) == shape[1] * shape[2] * shape[3]

\* the m-th voxel (m = 1 ..) visited by  for i: for j: for k:
ScanAt(shape, m) ==
    LET m0 == m - 1
        yz == shape[2] * shape[3]
    IN  <<m0 \div yz, (m0 % yz) \div shape[3], m0 % shape[3]>>

ScanSeq(shape) == [m \in 1 .. Size(shape) |-> ScanAt(shape, m)]

\* the position of voxel v in the scan, which is its place in the array's
\* (row-major) buffer
Lin(shape, v) == v[1] * shape[2] * shape[3] + v[2] * shape[3] + v[3] + 1

\* a[i, j, k] for v = <<i, j, k>>
At(a, v) == a.data[Lin(a.shape, v)]

\* np.full(shape, x)
Full(shape, x) == [shape |-> shape, data |-> [m \in 1 .. Size(shape) |-> x]]

\* (math.isnan(p[i, j, k]) == False) and (p[i, j, k] != 0)
Counted(x) == (~isnan(x)) /\ (~EqZero(x))

\* the counting loop of fwe_correct and fdr_correct
CountN(a) == Cardinality({v \in Vox(a.shape) : Counted(At(a, v))})

----------------------------------------------------------------------------
(* fwe_correct *)

\* fwe_correct with a count that takes in the zero voxels
fwe_correct_CountsZeros(a) ==
    LET n == Cardinality({v \in Vox(a.shape) : ~isnan(At(a, v))})
    IN  [shape |-> a.shape, data |-> [m \in 1 .. Size(a.shape) |-> MulInt(a.data[m], n)]]

\* fwep = p*n
fwe_correct(a) ==
    LET n == CountN(a)
    IN  [shape |-> a.shape, data |-> [m \in 1 .. Size(a.shape) |-> MulInt(a.data[m], n)]]

----------------------------------------------------------------------------
(* fdr_correct *)

\* pcluster after the gathering loop: the counted values in scan order
Gather(a) ==
    LET scan == ScanSeq(a.shape)
        kept == SelectSeq(scan, LAMBDA v : Counted(At(a, v)))
    IN  [m \in 1 .. Len(kept) |-> At(a, kept[m])]

\* the results np.argsort(pcluster) may give: every permutation of the
\* positions that lists the values in non-decreasing order (pcluster holds
\* no NaN; the order among equal values is the sort's choice)
Argsorts(pc) ==
    LET n == Len(pc)
    IN  {ix \in [1 .. n -> 1 .. n] :
            /\ \A x, y \in 1 .. n : ix[x] = ix[y] => x = y
            /\ \A l \in 1 .. n - 1 : ~Less(pc[ix[l + 1]], pc[ix[l]])}

\* for l in range(n): pcluster[index[l]] = pcluster[index[l]] * n / (l + 0.5)
\* (l here runs 1 .. n, the code's l is l - 1)
RECURSIVE RescaleLoop(_, _, _, _)
RescaleLoop(pc, index, n, l) ==
    IF l > n THEN pc
    ELSE RescaleLoop([pc EXCEPT ![index[l]] = MulDivHalf(pc[index[l]], n, l - 1)],
                     index, n, l + 1)

\* NewPCluster without the reading through index
NewPCluster_InPlace(pc, index) == pc

\* for l in range(n): newpcluster[l] = pcluster[index[l]]
NewPCluster(pc, index) == [l \in 1 .. Len(pc) |-> pc[index[l]]]

\* the value of m when the scattering loop reaches the counted voxel v
ScatterPos(a, v) ==
    Cardinality({w \in Vox(a.shape) :
                    Counted(At(a, w)) /\ Lin(a.shape, w) <= Lin(a.shape, v)})

\* Scatter with fdrp starting as np.zeros
Scatter_FromZeros(a, newpc) ==
    [shape |-> a.shape,
     data |-> [m \in 1 .. Size(a.shape) |->
                  IF Counted(a.data[m]) THEN newpc[ScatterPos(a, ScanAt(a.shape, m))]
                  ELSE Zero]]

\* fdrp = np.full(nan); the scattering loop writes newpcluster[m] at the m-th
\* counted voxel of the scan
Scatter(a, newpc) ==
    [shape |-> a.shape,
     data |-> [m \in 1 .. Size(a.shape) |->
                  IF Counted(a.data[m]) THEN newpc[ScatterPos(a, ScanAt(a.shape, m))]
                  ELSE NaN]]

fdr_correct(a, index) ==
    LET n == CountN(a)
        pcluster == RescaleLoop(Gather(a), index, n, 1)
    IN  Scatter(a, NewPCluster(pcluster, index))

----------------------------------------------------------------------------
(* datamask *)

\* MaskKeeps without the NaN test
MaskKeeps_NonZeroOnly(x) == ~EqZero(x)

\* (mask_data[i, j, k] != 0) and (math.isnan(mask_data[i, j, k]) is False)
MaskKeeps(x) == (~EqZero(x)) /\ (~isnan(x))

datamask(fmri_data, mask_data) ==
    [shape |-> fmri_data.shape,
     data |-> [m \in 1 .. Size(fmri_data.shape) |->
                  IF MaskKeeps(mask_data.data[m]) THEN fmri_data.data[m] ELSE NaN]]

----------------------------------------------------------------------------
(* The calls of the p-value utilities *)

\* the shapes of the p-value maps
SmallShapes == {<<1, 1, 1>>, <<1, 1, 3>>, <<2, 1, 2>>}

PVals == {NaN, Zero, Inf} \cup {Rat(c, 100) : c \in 1 .. MaxP}

MaskVals == {NaN, Zero, Inf, One}

Arrays(shape, vals) ==
    {[shape |-> shape, data |-> d] : d \in [1 .. Size(shape) -> vals]}

NoMask == Full(<<1, 1, 1>>, Zero)

NoOpts == [rescale |-> FALSE, conditions |-> "None", cmap |-> "None"]

Unset == [tag |-> "unset"]

\* no call is followed step by step
NoFrame == [pc |-> "idle", nsmall |-> 0, m |-> 0]
Returned(a) == [tag |-> "array", arr |-> a]

InitStat ==
    /\ fn = "none"
    /\ \E shape \in SmallShapes : p \in Arrays(shape, PVals)
    /\ p0 = p
    /\ mask = NoMask
    /\ threshold = 0
    /\ opts = NoOpts
    /\ ret = Unset
    /\ console = <<>>
    /\ calls = <<>>
    /\ frame = NoFrame

Call_fwe_correct ==
    /\ fn = "none"
    /\ fn' = "fwe_correct"
    /\ ret' = Returned(fwe_correct(p))
    /\ console' = Append(console, "finished FWE correct")
    /\ UNCHANGED <<p, p0, mask, threshold, opts, calls, frame>>

Call_fdr_correct ==
    /\ fn = "none"
    /\ \E index \in Argsorts(Gather(p)) :
          ret' = Returned(fdr_correct(p, index))
    /\ fn' = "fdr_correct"
    /\ console' = Append(console, "finished FDR correct")
    /\ UNCHANGED <<p, p0, mask, threshold, opts, calls, frame>>

Call_datamask ==
    /\ fn = "none"
    /\ \E m \in Arrays(p.shape, MaskVals) :
          /\ mask' = m
          /\ ret' = Returned(datamask(p, m))
    /\ fn' = "datamask"
    /\ UNCHANGED <<p, p0, threshold, opts, console, calls, frame>>

NextStat == Call_fwe_correct \/ Call_fdr_correct \/ Call_datamask

SpecStat == InitStat /\ [][NextStat]_vars

----------------------------------------------------------------------------
(* Claims about the p-value utilities, checked under SpecStat *)

\* a value that is finite and not 0
FiniteNonZero(x) == IsFinite(x) /\ x.n # 0

\* the number of finite non-zero voxels of a
NFinite(a) == Cardinality({v \in Vox(a.shape) : FiniteNonZero(At(a, v))})

\* the 1-based ascending positions the value at v can take among the finite
\* non-zero values of a (more than one when the value occurs more than once)
RanksOf(a, v) ==
    LET fin == {w \in Vox(a.shape) : FiniteNonZero(At(a, w))}
        below == Cardinality({w \in fin : Less(At(a, w), At(a, v))})
        upto == Cardinality({w \in fin : ~Less(At(a, v), At(a, w))})
    IN  (below + 1) .. upto

\* C1: after fdr_correct, every finite non-zero voxel v of the input holds
\* p[v] * n / (rank(v) - 0.5) at v itself, n the number of finite non-zero
\* voxels and rank(v) the ascending position of p[v] among them.  (Stated
\* for the maps without an infinite voxel, where the finite non-zero voxels
\* are the voxels the code counts.)
C1_OwnVoxel ==
    (fn = "fdr_correct" /\ \A u \in Vox(p0.shape) : At(p0, u) # Inf) =>
        \A v \in Vox(p0.shape) :
            FiniteNonZero(At(p0, v)) =>
                \E r \in RanksOf(p0, v) :
                    At(ret.arr, v) = MulDivHalf(At(p0, v), NFinite(p0), r - 1)

\* C4 as stated: fdr_correct keeps the shape, keeps NaN voxels NaN, keeps
\* zero voxels 0, and changes only finite non-zero voxels.
C4_Original ==
    fn = "fdr_correct" =>
        /\ ret.arr.shape = p0.shape
        /\ \A v \in Vox(p0.shape) :
              /\ isnan(At(p0, v)) => isnan(At(ret.arr, v))
              /\ EqZero(At(p0, v)) => At(ret.arr, v) = Zero
              /\ At(ret.arr, v) # At(p0, v) => FiniteNonZero(At(p0, v))

\* C4 as amended: fdr_correct keeps the shape, and every voxel that is NaN
\* or exactly 0 in the input is NaN in the output; every other voxel holds a
\* value that is not NaN.
C4_ZeroBecomesNaN ==
    fn = "fdr_correct" =>
        /\ ret.arr.shape = p0.shape
        /\ \A v \in Vox(p0.shape) :
              (isnan(At(p0, v)) \/ EqZero(At(p0, v))) <=> isnan(At(ret.arr, v))

\* a call of fdr_correct on a map with a NaN voxel, a zero voxel and a
\* finite non-zero voxel has returned
C4_Witness ==
    /\ fn = "fdr_correct"
    /\ \E u, v, w \in Vox(p0.shape) :
          /\ isnan(At(p0, u))
          /\ EqZero(At(p0, v)) /\ isnan(At(ret.arr, v))
          /\ FiniteNonZero(At(p0, w)) /\ FiniteNonZero(At(ret.arr, w))

\* C5 as stated: fwe_correct multiplies every finite non-zero voxel by the
\* number n of finite non-zero voxels, keeps zero voxels 0 and NaN voxels NaN.
C5_Original ==
    fn = "fwe_correct" =>
        \A v \in Vox(p0.shape) :
            /\ FiniteNonZero(At(p0, v)) =>
                  At(ret.arr, v) = MulInt(At(p0, v), NFinite(p0))
            /\ EqZero(At(p0, v)) => At(ret.arr, v) = Zero
            /\ isnan(At(p0, v)) => isnan(At(ret.arr, v))

\* the number of voxels of a that are neither NaN nor 0 (infinite ones count)
NNotNaNNotZero(a) ==
    Cardinality({v \in Vox(a.shape) : At(a, v).k # "nan" /\ At(a, v) # Zero})

\* C5 as amended: with n the number of voxels that are non-zero and not NaN
\* (an infinite voxel counts), fwe_correct turns every finite non-zero voxel p
\* into p * n, keeps an infinite voxel infinite, a zero voxel 0 and a NaN
\* voxel NaN, and keeps the shape.
C5_Bonferroni ==
    fn = "fwe_correct" =>
        /\ ret.arr.shape = p0.shape
        /\ \A v \in Vox(p0.shape) :
              /\ FiniteNonZero(At(p0, v)) =>
                    At(ret.arr, v) = MulInt(At(p0, v), NNotNaNNotZero(p0))
              /\ At(p0, v) = Inf => At(ret.arr, v) = Inf
              /\ EqZero(At(p0, v)) => At(ret.arr, v) = Zero
              /\ isnan(At(p0, v)) => isnan(At(ret.arr, v))

\* fwe_correct has returned {0.02, 0.04, 0, NaN} for {0.01, 0.02, 0, NaN}
C5_Witness ==
    /\ fn = "fwe_correct"
    /\ p0.shape = <<2, 1, 2>>
    /\ At(p0, <<0, 0, 0>>) = Rat(1, 100) /\ At(ret.arr, <<0, 0, 0>>) = Rat(2, 100)
    /\ At(p0, <<0, 0, 1>>) = Rat(2, 100) /\ At(ret.arr, <<0, 0, 1>>) = Rat(4, 100)
    /\ At(p0, <<1, 0, 0>>) = Zero /\ At(ret.arr, <<1, 0, 0>>) = Zero
    /\ At(p0, <<1, 0, 1>>) = NaN /\ At(ret.arr, <<1, 0, 1>>) = NaN

\* C8 as stated: datamask keeps the shape and gives fmri_data[i] where
\* mask_data[i] is non-zero and finite, NaN elsewhere.
C8_Original ==
    fn = "datamask" =>
        /\ ret.arr.shape = p0.shape
        /\ \A v \in Vox(p0.shape) :
              At(ret.arr, v) =
                  IF FiniteNonZero(At(mask, v)) THEN At(p0, v) ELSE NaN

\* C8 as amended: datamask keeps the shape and gives fmri_data[i] where
\* mask_data[i] is non-zero and not NaN (an infinite mask value selects the
\* voxel), NaN where mask_data[i] is 0 or NaN.
C8_Selection ==
    fn = "datamask" =>
        /\ ret.arr.shape = p0.shape
        /\ \A v \in Vox(p0.shape) :
              At(ret.arr, v) =
                  IF At(mask, v) \in {Zero, NaN} THEN NaN ELSE At(p0, v)

\* datamask has returned for a mask with a finite non-zero, an infinite, a
\* zero and a NaN entry over data that is not NaN
C8_Witness ==
    /\ fn = "datamask"
    /\ \E t, u, v, w \in Vox(p0.shape) :
          /\ At(mask, t) = One /\ At(ret.arr, t) = At(p0, t)
          /\ At(mask, u) = Inf /\ At(ret.arr, u) = At(p0, u)
          /\ At(mask, v) = Zero /\ isnan(At(ret.arr, v))
          /\ At(mask, w) = NaN /\ isnan(At(ret.arr, w))
          /\ \A x \in {t, u, v, w} : ~isnan(At(p0, x))

\* the place of the voxel v among the voxels of a that satisfy the test
\* named by kind, in scan order ("finite": finite and not 0; "counted": not
\* NaN and not 0)
Picked(kind, x) == IF kind = "finite" THEN FiniteNonZero(x) ELSE Counted(x)

PlaceInScan(a, v, kind) ==
    Cardinality({w \in Vox(a.shape) :
                    Picked(kind, At(a, w)) /\ Lin(a.shape, w) <= Lin(a.shape, v)})

\* x is the m-th smallest of the values of a that satisfy the test
IsMthSmallest(a, x, m, kind) ==
    LET sel == {w \in Vox(a.shape) : Picked(kind, At(a, w))}
    IN  /\ \E w \in sel : At(a, w) = x
        /\ Cardinality({w \in sel : Less(At(a, w), x)}) < m
        /\ m <= Cardinality({w \in sel : ~Less(x, At(a, w))})

\* the output of fdr_correct at every voxel of the kind is
\* p_(m) * n / (m - 0.5), m the place of the voxel in the scan among the
\* voxels of the kind, p_(m) the m-th smallest of their values, n their number
ScanOrderHolds(kind) ==
    LET sel == {w \in Vox(p0.shape) : Picked(kind, At(p0, w))}
        n == Cardinality(sel)
    IN  \A v \in sel :
            \E u \in sel :
                /\ IsMthSmallest(p0, At(p0, u), PlaceInScan(p0, v, kind), kind)
                /\ At(ret.arr, v) =
                      MulDivHalf(At(p0, u), n, PlaceInScan(p0, v, kind) - 1)

\* C17 as stated: the m-th finite non-zero voxel of the scan holds
\* p_(m) * n / (m - 0.5) after fdr_correct, p_(m) the m-th smallest finite
\* non-zero input value and n the number of finite non-zero voxels.
C17_Original == fn = "fdr_correct" => ScanOrderHolds("finite")

\* C17 as amended: the m-th voxel of the scan that is neither NaN nor 0 (an
\* infinite voxel is one of them) holds p_(m) * n / (m - 0.5) after
\* fdr_correct, p_(m) the m-th smallest of the values of these voxels and n
\* their number; so the values written depend on the values of the input
\* only, not on where they sit.
C17_ScanOrder == fn = "fdr_correct" => ScanOrderHolds("counted")

\* fdr_correct has returned [NaN, 0.04, 2/75] for [NaN, 0.02, 0.01]: the
\* smaller value, corrected, sits where the larger one was
C17_Witness ==
    /\ fn = "fdr_correct"
    /\ p0.shape = <<1, 1, 3>>
    /\ p0.data = <<NaN, Rat(2, 100), Rat(1, 100)>>
    /\ ret.arr.data = <<NaN, Rat(4, 100), Rat(2, 75)>>

----------------------------------------------------------------------------
(* correct_by_threshold *)

\* nsmall = 1; while nsmall*nsmall*nsmall < threshold: nsmall = nsmall + 1
RECURSIVE NSmallFrom(_, _)
NSmallFrom(nsmall, t) ==
    IF nsmall * nsmall * nsmall < t THEN NSmallFrom(nsmall + 1, t) ELSE nsmall

NSmall(t) == NSmallFrom(1, t)

\* range(s - nlarge + 1) has this many elements
RangeLen(s, nlarge) == IF s - nlarge + 1 > 0 THEN s - nlarge + 1 ELSE 0

\* the corners <<i, j, k>> of the scan, in the order the three loops visit them
Windows(shape, nlarge) ==
    ScanSeq(<<RangeLen(shape[1], nlarge), RangeLen(shape[2], nlarge),
              RangeLen(shape[3], nlarge)>>)

\* listlarge.count(0) < nlarge*nlarge*nlarge
LargeNotAllZero(img, w, nlarge) ==
    \E l, m, q \in 0 .. nlarge - 1 : ~EqZero(At(img, <<w[1] + l, w[2] + m, w[3] + q>>))

\* img[i, j, k] == 0
ZeroAt(img, i, j, k) == EqZero(At(img, <<i, j, k>>))

\* index1 after the two counting loops, as the number of reads that found 0
\* (each set below holds the passes <<l, m>> of a loop in which one of its
\* reads found 0): the first loop reads the faces k and k + nlarge - 1, the
\* second the four side strips at the depths k + m, m in range(nlarge - 2)
Index1(img, w, nlarge) ==
    LET i == w[1]
        j == w[2]
        k == w[3]
        first == (0 .. nlarge - 1) \X (0 .. nlarge - 1)
        second == (0 .. nlarge - 2) \X (0 .. nlarge - 3)
    IN  Cardinality({lm \in first : ZeroAt(img, i + lm[1], j + lm[2], k)})
        + Cardinality({lm \in first : ZeroAt(img, i + lm[1], j + lm[2], k + nlarge - 1)})
        + Cardinality({lm \in second : ZeroAt(img, i + lm[1], j, k + lm[2])})
        + Cardinality({lm \in second : ZeroAt(img, i, j + lm[1] + 1, k + lm[2])})
        + Cardinality({lm \in second : ZeroAt(img, i + nlarge - 1, j + lm[1], k + lm[2])})
        + Cardinality({lm \in second : ZeroAt(img, i + lm[1] + 1, j + nlarge - 1, k + lm[2])})

\* Unit with the slice of the first axis starting at i + 2
Unit_FromIPlus2(w, nsmall) ==
    {<<w[1] + 2 + l, w[2] + 1 + m, w[3] + 1 + q>> : l, m, q \in 0 .. nsmall - 1}

\* the voxels of img[i+1:i+1+nsmall, j+1:j+1+nsmall, k+1:k+1+nsmall]
Unit(w, nsmall) ==
    {<<w[1] + 1 + l, w[2] + 1 + m, w[3] + 1 + q>> : l, m, q \in 0 .. nsmall - 1}

\* index2 = nsmall*nsmall*nsmall - list_internal.count(0)
Index2(img, w, nsmall) ==
    nsmall * nsmall * nsmall
        - Cardinality({v \in Unit(w, nsmall) : EqZero(At(img, v))})

\* the comparison  index2 < threshold
BelowThreshold(index2, t) == index2 < t

\* Cleared with np.ones in the place of np.zeros
Cleared_Ones == One

\* the value the innermost loop stores in every voxel of the unit
Cleared == Zero

\* img[i+1:i+1+nsmall, j+1:j+1+nsmall, k+1:k+1+nsmall] = np.zeros(...)
ClearUnit(img, w, nsmall) ==
    LET unit == {Lin(img.shape, v) : v \in Unit(w, nsmall)}
    IN  [img EXCEPT !.data = [m \in 1 .. Size(img.shape) |->
                                 IF m \in unit THEN Cleared ELSE img.data[m]]]

\* the body of the three loops for the window at corner w
Window(img, w, nsmall, nlarge, t) ==
    IF /\ LargeNotAllZero(img, w, nlarge)
       /\ Index1(img, w, nlarge) = nlarge * nlarge * nlarge - nsmall * nsmall * nsmall
       /\ BelowThreshold(Index2(img, w, nsmall), t)
    THEN ClearUnit(img, w, nsmall)
    ELSE img

\* the windows m, m + 1, ... of ws applied in turn to img
RECURSIVE ScanFrom(_, _, _, _, _, _)
ScanFrom(img, ws, m, nsmall, nlarge, t) ==
    IF m > Len(ws) THEN img
    ELSE ScanFrom(Window(img, ws[m], nsmall, nlarge, t), ws, m + 1, nsmall, nlarge, t)

\* img as correct_by_threshold leaves it (the array is changed in place)
correct_by_threshold(img, t) ==
    LET nsmall == NSmall(t)
        nlarge == nsmall + 2
    IN  ScanFrom(img, Windows(img.shape, nlarge), 1, nsmall, nlarge, t)

----------------------------------------------------------------------------
(* The calls of correct_by_threshold *)

\* the shapes of the volumes
VolumeShapes == {<<3, 3, 3>>, <<4, 4, 4>>, <<5, 4, 4>>}

\* the values of the voxels of a volume that are not 0
VolumeVals == {One, NaN}

\* where a volume may be non-zero: anywhere in the 27-voxel volume, in the
\* plane j = 1 (which cuts through the inner cubes and the shells of every
\* window and reaches the border) in the larger ones
Region(shape) ==
    IF shape = <<3, 3, 3>> THEN Vox(shape) ELSE {v \in Vox(shape) : v[2] = 1}

\* the sets of at most MaxSupport voxels of the region
Supports(shape) ==
    {{}} \cup {{s[x] : x \in 1 .. MaxSupport} : s \in [1 .. MaxSupport -> Region(shape)]}

\* correct_by_threshold returns img itself
SameObject == [tag |-> "arg"]

InitThr ==
    /\ fn = "none"
    /\ \E shape \in VolumeShapes :
          \E S \in Supports(shape) :
             \E f \in [S -> VolumeVals] :
                p = [shape |-> shape,
                     data |-> [m \in 1 .. Size(shape) |->
                                  IF ScanAt(shape, m) \in S THEN f[ScanAt(shape, m)]
                                  ELSE Zero]]
    /\ p0 = p
    /\ mask = NoMask
    /\ threshold = 0
    /\ opts = NoOpts
    /\ ret = Unset
    /\ console = <<>>
    /\ calls = <<>>
    /\ frame = NoFrame

\* the array passed is changed in place and returned; of the output only the
\* closing message is recorded, not the counts printed for each window
Call_correct_by_threshold ==
    /\ fn = "none"
    /\ \E t \in -1 .. MaxThreshold :
          /\ threshold' = t
          /\ p' = correct_by_threshold(p, t)
    /\ fn' = "correct_by_threshold"
    /\ ret' = SameObject
    /\ console' = Append(console, "finished correction")
    /\ UNCHANGED <<p0, mask, opts, calls, frame>>

NextThr == Call_correct_by_threshold

SpecThr == InitThr /\ [][NextThr]_vars

\* the array a call gave back: the argument itself or a new array
Result == IF ret.tag = "arg" THEN p ELSE ret.arr

----------------------------------------------------------------------------
(* Claims about correct_by_threshold, checked under SpecThr *)

\* the voxels of a that carry a result: neither 0 nor NaN
Signal(a) == {v \in Vox(a.shape) : ~EqZero(At(a, v)) /\ ~isnan(At(a, v))}

\* u and v are neighbours: they share a face (conn = 6), or a face, an edge
\* or a corner (conn = 26)
Touch(u, v, conn) ==
    LET dx == Abs(u[1] - v[1])
        dy == Abs(u[2] - v[2])
        dz == Abs(u[3] - v[3])
    IN  /\ u # v
        /\ dx <= 1 /\ dy <= 1 /\ dz <= 1
        /\ (conn = 26 \/ dx + dy + dz = 1)

RECURSIVE Grow(_, _, _)
Grow(S, sig, conn) ==
    LET S2 == S \cup {v \in sig : \E u \in S : Touch(u, v, conn)}
    IN  IF S2 = S THEN S ELSE Grow(S2, sig, conn)

\* the cluster of a that the voxel v of Signal(a) belongs to
Cluster(a, v, conn) == Grow({v}, Signal(a), conn)

\* C2: after correct_by_threshold, every voxel of a cluster of the input
\* with at least threshold voxels holds its input value.  (Clusters are
\* taken face-connected: a cluster under any wider notion of contiguity
\* contains one of these and is at least as large.)
C2_LargeKept ==
    fn = "correct_by_threshold" =>
        \A v \in Signal(p0) :
            Cardinality(Cluster(p0, v, 6)) >= threshold => At(Result, v) = At(p0, v)

\* C3: after correct_by_threshold, every voxel of a cluster of the input
\* with fewer than threshold voxels is 0.  (Clusters are taken
\* 26-connected: a cluster under any narrower notion of contiguity lies
\* inside one of these and is no larger.)
C3_SmallCleared ==
    fn = "correct_by_threshold" =>
        \A v \in Signal(p0) :
            Cardinality(Cluster(p0, v, 26)) < threshold => At(Result, v) = Zero

\* C6: a call of a correction utility leaves every element of the array
\* passed to it as it was.
C6_ArgumentUnchanged ==
    fn \in {"fwe_correct", "fdr_correct", "correct_by_threshold", "datamask"} =>
        p = p0

\* C7: the output of correct_by_threshold has the shape of the input, and
\* every voxel of it holds the input value of that voxel or 0.
C7_OnlyClears ==
    fn = "correct_by_threshold" =>
        /\ Result.shape = p0.shape
        /\ \A v \in Vox(p0.shape) : At(Result, v) = At(p0, v) \/ At(Result, v) = Zero

\* correct_by_threshold has cleared a voxel that held a finite non-zero value
C7_Witness ==
    /\ fn = "correct_by_threshold"
    /\ \E v \in Vox(p0.shape) : At(p0, v) = One /\ At(Result, v) = Zero

\* the least n >= 1 with n^3 >= t
CubeSide(t) ==
    CHOOSE n \in 1 .. (IF t > 1 THEN t ELSE 1) :
        /\ n * n * n >= t
        /\ \A m \in 1 .. n - 1 : m * m * m < t

\* the nlarge-sided cubes <<i, j, k>> .. <<i + nlarge - 1, ...>> inside the shape
Cubes(shape, nlarge) ==
    {w \in Vox(shape) : \A x \in 1 .. 3 : w[x] + nlarge <= shape[x]}

\* the cube at w is 0 outside its inner cube, and the voxels of the inner
\* cube that are not 0 are one cluster of exactly t voxels
IsolatedExactly(a, w, t) ==
    LET nsmall == CubeSide(t)
        large == {<<w[1] + l, w[2] + m, w[3] + q>> : l, m, q \in 0 .. nsmall + 1}
        inner == {<<w[1] + l, w[2] + m, w[3] + q>> : l, m, q \in 1 .. nsmall}
        filled == {v \in inner : At(a, v) # Zero}
    IN  /\ \A v \in large \ inner : At(a, v) = Zero
        /\ Cardinality(filled) = t
        /\ \A v \in filled : v \in Signal(a) /\ Cluster(a, v, 26) = filled

\* C9: after correct_by_threshold(img, n), a cluster of exactly n voxels
\* that lies alone in the inner cube of a scan window (everything else in
\* the window's large cube is 0) is 0: only clusters of more than n voxels
\* remain.
C9_ExactlyNCleared ==
    fn = "correct_by_threshold" =>
        \A w \in Cubes(p0.shape, CubeSide(threshold) + 2) :
            IsolatedExactly(p0, w, threshold) =>
                \A v \in Vox(p0.shape) :
                    (\A x \in 1 .. 3 : v[x] - w[x] \in 1 .. CubeSide(threshold))
                        => At(Result, v) = Zero

\* the voxels with an index of 0 or of size - 1 along an axis
Border(shape) ==
    {v \in Vox(shape) : \E x \in 1 .. 3 : v[x] = 0 \/ v[x] = shape[x] - 1}

\* C18: after correct_by_threshold every voxel on the border of the map
\* holds its input value, and a map with an axis shorter than nsmall + 2
\* (nsmall the least n >= 1 with n^3 >= threshold) is as it was passed.
C18_BorderUntouched ==
    fn = "correct_by_threshold" =>
        /\ \A v \in Border(p0.shape) : At(Result, v) = At(p0, v)
        /\ (\E x \in 1 .. 3 : p0.shape[x] < CubeSide(threshold) + 2) => Result = p0

\* correct_by_threshold has cleared a voxel inside the map and left alone a
\* voxel of the border that is not 0
C18_Witness ==
    /\ fn = "correct_by_threshold"
    /\ \E v \in Vox(p0.shape) \ Border(p0.shape) :
          At(p0, v) # Zero /\ At(Result, v) = Zero
    /\ \E v \in Border(p0.shape) : At(p0, v) # Zero /\ At(Result, v) = At(p0, v)

----------------------------------------------------------------------------
(* plot_rdm and plot_rdm_withvalue *)

\* the largest entry of an RDM is MaxEntry
MaxEntry == 2

\* x - y and x / y (y > 0) for finite values
SubV(x, y) == Rat(x.n * y.d - y.n * x.d, x.d * y.d)
DivV(x, y) == Rat(x.n * y.d, x.d * y.n)

\* svrdm = set(vrdm): the distinct entries
Distinct(rdm) == {rdm.data[m] : m \in 1 .. Len(rdm.data)}

\* lvrdm[-1] after lvrdm.sort(): the largest distinct entry
MaxValue(rdm) == CHOOSE x \in Distinct(rdm) : \A y \in Distinct(rdm) : ~Less(x, y)

\* lvrdm[0]
Smallest(S) == CHOOSE x \in S : \A y \in S : ~Less(y, x)

\* MinValue reading lvrdm[0]
MinValue_Smallest(rdm) == Smallest(Distinct(rdm))

\* lvrdm[1] after lvrdm.sort(): the second smallest distinct entry (the list
\* must hold two entries)
MinValue(rdm) == Smallest(Distinct(rdm) \ {Smallest(Distinct(rdm))})

\* the rescaling loop: every entry off the diagonal becomes
\* (rdm[i, j] - minvalue) / (maxvalue - minvalue), in place
Rescaled(rdm, minvalue, maxvalue) ==
    LET cons == rdm.shape[1]
    IN  [rdm EXCEPT !.data =
            [m \in 1 .. Len(rdm.data) |->
                IF (m - 1) \div cons # (m - 1) % cons
                THEN DivV(SubV(rdm.data[m], minvalue), SubV(maxvalue, minvalue))
                ELSE rdm.data[m]]]

\* the block  if rescale == True:  when it does not raise
RescaleBlock(rdm) ==
    IF MaxValue(rdm) # MinValue(rdm)
    THEN Rescaled(rdm, MinValue(rdm), MaxValue(rdm))
    ELSE rdm

\* lvrdm[1] raises IndexError when the RDM holds one distinct value
RescaleRaises(rdm) == Cardinality(Distinct(rdm)) < 2

\* Validate without the test that the matrix is square
Validate_NoSquareTest(rdm) == IF rdm.shape[1] = 2 THEN "print" ELSE "pass"

\* the validation both functions start with: what it prints, or "pass"
\*   if cons == 2: print(...); return None
\*   a, b = np.shape(rdm); if a != b: return None
Validate(rdm) ==
    IF rdm.shape[1] = 2 THEN "print"
    ELSE IF rdm.shape[1] # rdm.shape[2] THEN "silent"
    ELSE "pass"

Msg2x2 == "The shape of RDM cannot be 2*2. Here NeuroRA cannot plot this RDM."

None == [tag |-> "None"]
Raised(exc) == [tag |-> "raised", exc |-> exc]

\* the calls from plt.imshow to the labelling of the axes
DrawCalls(colormap, label, conditions) ==
    <<<<"imshow", colormap>>, <<"colorbar", label>>>>
        \o (IF conditions # "None"
            THEN <<<<"xticks", conditions>>, <<"yticks", conditions>>>>
            ELSE <<<<"axis", "off">>>>)

\* the shapes of the matrices passed to the plots
RdmShapes ==
    {<<1, 1>>, <<1, 2>>, <<2, 1>>, <<1, 3>>, <<3, 1>>, <<2, 2>>, <<2, 3>>, <<3, 2>>,
     <<3, 3>>}

Entries == {Rat(c, 1) : c \in 0 .. MaxEntry}

\* the matrices of a shape; the 3 x 3 ones are symmetric, as an RDM is
Rdms(shape) ==
    {[shape |-> shape, data |-> d] :
        d \in {e \in [1 .. shape[1] * shape[2] -> Entries] :
                 shape = <<3, 3>> => (e[2] = e[4] /\ e[3] = e[7] /\ e[6] = e[8])}}

InitPlot ==
    /\ fn = "none"
    /\ \E shape \in RdmShapes : p \in Rdms(shape)
    /\ p0 = p
    /\ mask = NoMask
    /\ threshold = 0
    /\ opts = NoOpts
    /\ ret = Unset
    /\ console = <<>>
    /\ calls = <<>>
    /\ frame = NoFrame

Call_plot_rdm ==
    /\ fn = "none"
    /\ fn' = "plot_rdm"
    /\ \E rescale \in BOOLEAN, conditions \in {"None", "labels"}, cmap \in {"None", "cmap"} :
          LET valid == Validate(p)
              rdm == IF rescale THEN RescaleBlock(p) ELSE p
              colormap == IF cmap = "None" THEN "jet" ELSE cmap
              label == IF rescale THEN "Dissimilarity (Rescaling)" ELSE "Dissimilarity"
          IN  /\ opts' = [rescale |-> rescale, conditions |-> conditions, cmap |-> cmap]
              /\ IF valid # "pass"
                    THEN /\ ret' = None
                         /\ console' = IF valid = "print" THEN Append(console, Msg2x2)
                                       ELSE console
                         /\ UNCHANGED <<p, calls>>
                    ELSE IF rescale /\ RescaleRaises(p)
                    THEN /\ ret' = Raised("IndexError")
                         /\ UNCHANGED <<p, console, calls>>
                    ELSE /\ p' = rdm
                         /\ calls' = calls \o DrawCalls(colormap, label, conditions)
                                           \o <<<<"show", "">>>>
                         /\ console' = IF conditions # "None" THEN Append(console, "1")
                                       ELSE console
                         /\ ret' = None
    /\ UNCHANGED <<p0, mask, threshold, frame>>

\* plot_rdm_withvalue sets step only where conditions is given; the loop
\* that adds the values prints the cell and then reads step, in its first pass
Call_plot_rdm_withvalue ==
    /\ fn = "none"
    /\ fn' = "plot_rdm_withvalue"
    /\ \E conditions \in {"None", "labels"}, cmap \in {"None", "cmap"} :
          LET valid == Validate(p)
              cons == p.shape[1]
              colormap == IF cmap = "None" THEN "Greens" ELSE cmap
              cells == [m \in 1 .. cons * cons |->
                           ToString((m - 1) \div cons) \o " " \o ToString((m - 1) % cons)]
              texts == [m \in 1 .. cons * cons |-> <<"text", cells[m]>>]
          IN  /\ opts' = [rescale |-> FALSE, conditions |-> conditions, cmap |-> cmap]
              /\ IF valid # "pass"
                    THEN /\ ret' = None
                         /\ console' = IF valid = "print" THEN Append(console, Msg2x2)
                                       ELSE console
                         /\ UNCHANGED calls
                    ELSE IF conditions = "None"
                    THEN /\ calls' = calls \o DrawCalls(colormap, "Dissimilarity", conditions)
                         /\ console' = Append(console, cells[1])
                         /\ ret' = Raised("UnboundLocalError")
                    ELSE /\ calls' = calls \o DrawCalls(colormap, "Dissimilarity", conditions)
                                           \o texts \o <<<<"show", "">>>>
                         /\ console' = Append(console, "1") \o cells
                         /\ ret' = None
    /\ UNCHANGED <<p, p0, mask, threshold, frame>>

NextPlot == Call_plot_rdm \/ Call_plot_rdm_withvalue

SpecPlot == InitPlot /\ [][NextPlot]_vars

----------------------------------------------------------------------------
(* Claims about the matrix plots, checked under SpecPlot *)

\* C10: plot_rdm (rescale True or False) and plot_rdm_withvalue, given a
\* 2 x 2 matrix or a matrix that is not square, return None, make no call to
\* the plotting library and leave every entry of the matrix as it was.
C10_Validation ==
    (/\ fn \in {"plot_rdm", "plot_rdm_withvalue"}
     /\ (p0.shape = <<2, 2>> \/ p0.shape[1] # p0.shape[2])) =>
        /\ ret = None
        /\ calls = <<>>
        /\ p = p0

\* plot_rdm with rescale=True has returned for a matrix that is not square
\* and holds the three entries a rescaling would change
C10_Witness ==
    /\ fn = "plot_rdm"
    /\ opts.rescale
    /\ p0.shape = <<3, 2>>
    /\ Cardinality(Distinct(p0)) = 3
    /\ ret = None

\* the entries of a that are smaller than x
Below(a, x) == {y \in Distinct(a) : Less(y, x)}

\* m is the place of an entry off the diagonal of the square matrix a
OffDiagonal(a, m) == (m - 1) \div a.shape[2] # (m - 1) % a.shape[2]

\* C11: plot_rdm on a square matrix (not 2 x 2): with rescale=True, lo the
\* second smallest and hi the largest distinct entry of the matrix as passed,
\* and hi # lo, every entry v off the diagonal is (v - lo) / (hi - lo) after
\* the call and every entry on the diagonal is as it was; with rescale=False
\* no entry is changed.
C11_Rescale ==
    (fn = "plot_rdm" /\ p0.shape[1] = p0.shape[2] /\ p0.shape[1] # 2) =>
        IF opts.rescale
        THEN \A lo, hi \in Distinct(p0) :
                (/\ Cardinality(Below(p0, lo)) = 1
                 /\ Cardinality(Below(p0, hi)) = Cardinality(Distinct(p0)) - 1
                 /\ hi # lo) =>
                    \A m \in 1 .. Len(p0.data) :
                        p.data[m] = IF OffDiagonal(p0, m)
                                    THEN DivV(SubV(p0.data[m], lo), SubV(hi, lo))
                                    ELSE p0.data[m]
        ELSE p = p0

\* plot_rdm with rescale=True has shown a 3 x 3 matrix of three distinct
\* entries, and an entry off the diagonal is no longer what it was
C11_Witness ==
    /\ fn = "plot_rdm"
    /\ opts.rescale
    /\ p0.shape = <<3, 3>>
    /\ Cardinality(Distinct(p0)) = 3
    /\ \E m \in 1 .. 9 : OffDiagonal(p0, m) /\ p.data[m] # p0.data[m]
    /\ Len(calls) > 0

\* C13: a call of plot_rdm or plot_rdm_withvalue ends in one of two ways: on
\* a square matrix that is not 2 x 2 it reaches plt.show() and returns
\* without raising, whatever rescale and conditions are (conditions=None
\* included); on any other matrix it returns None having drawn nothing.
\* (Stated for the calls that do not rescale: a rescale of a matrix with one
\* distinct value raises IndexError at lvrdm[1], which is a second way in
\* which a call on a square matrix does not reach plt.show().)
C13_ShowOrNone ==
    (fn \in {"plot_rdm", "plot_rdm_withvalue"} /\ ~opts.rescale) =>
        IF p0.shape[1] = p0.shape[2] /\ p0.shape[1] # 2
        THEN /\ ret.tag # "raised"
             /\ calls # <<>>
             /\ calls[Len(calls)][1] = "show"
        ELSE /\ ret = None
             /\ calls = <<>>

----------------------------------------------------------------------------
(* The plots of a brain volume: plot_brainrsa_regions, _montage, _glass,   *)
(* _surface and _rlts.  p is the volume stored in the file img names; the  *)
(* calls made to correct_by_threshold, nilearn and matplotlib are recorded *)
(* in calls, each with the image or the value it was given.                *)

\* x == np.nan for an element x of the array: a comparison with NaN is False
EqNaN(x) == FALSE

\* (imgarray == np.nan).all() == True
AllNaNTest(imgarray) == \A m \in 1 .. Size(imgarray.shape) : EqNaN(imgarray.data[m])

\* img as the caller passed it: the path of the file
AsLoaded == [tag |-> "path"]

\* nib.Nifti1Image(imgarray, affine)
Nifti1Image(imgarray) == [tag |-> "Nifti1Image", arr |-> imgarray]

\* the block  if threshold != None:  and the image the rendering is given
\* after it (the array corrected is a new one, read from the file again)
CorrectionCalls(given, t) ==
    IF given THEN <<<<"correct_by_threshold", t>>>> ELSE <<>>

CorrectionOutput(given) == IF given THEN <<"finished correction">> ELSE <<>>

ImgAfter(imgarray, given, t) ==
    IF given THEN Nifti1Image(correct_by_threshold(imgarray, t)) ELSE AsLoaded

MsgNoValid == "No Valid Results"

\* the three cuts of plot_brainrsa_montage: one plot_stat_map for every
\* coordinate of slice that is not 0
MontageCalls(img, slice) ==
    (IF slice[1] # 0 THEN <<<<"plot_stat_map x", img>>>> ELSE <<>>)
        \o (IF slice[2] # 0 THEN <<<<"plot_stat_map y", img>>>> ELSE <<>>)
        \o (IF slice[3] # 0 THEN <<<<"plot_stat_map z", img>>>> ELSE <<>>)

\* the calls of plot_brainrsa_surface from fetch_surf_fsaverage on
SurfaceCalls(img) ==
    <<<<"fetch_surf_fsaverage", "fsaverage">>,
      <<"vol_to_surf", img>>, <<"vol_to_surf", img>>,
      <<"plot_surf_stat_map", "left">>, <<"plot_surf_stat_map", "right">>,
      <<"plot_surf_stat_map", "left">>, <<"plot_surf_stat_map", "right">>>>

Show == <<<<"show", "">>>>

\* the shapes of the brain volumes
BrainShapes == {<<1, 1, 2>>, <<3, 3, 3>>, <<4, 4, 4>>}

\* the volumes: one value everywhere (NaN, 0 or 1), or 0 with the voxel
\* [1, 1, 1] (or [0, 0, 1] of the two-voxel volume) set to 1
BrainVolumes(shape) ==
    {Full(shape, x) : x \in {NaN, Zero, One}}
        \cup {[shape |-> shape,
               data |-> [m \in 1 .. Size(shape) |->
                            IF m = (IF Size(shape) = 2 THEN 2 ELSE Lin(shape, <<1, 1, 1>>))
                            THEN One ELSE Zero]]}

\* slice: each coordinate 0 (no cut) or the default 6
Slices == {0, 6} \X {0, 6} \X {0, 6}

BrainOpts(given, slice, background) ==
    [given |-> given, slice |-> slice, background |-> background]

InitBrain ==
    /\ fn = "none"
    /\ \E shape \in BrainShapes : p \in BrainVolumes(shape)
    /\ p0 = p
    /\ mask = NoMask
    /\ threshold = 0
    /\ opts = NoOpts
    /\ ret = Unset
    /\ console = <<>>
    /\ calls = <<>>
    /\ frame = NoFrame

\* BrainRun with the correction block after the rendering
BrainRun_RenderFirst(imgarray, given, t, rendering) ==
    IF AllNaNTest(imgarray)
    THEN [console |-> <<MsgNoValid>>, calls |-> <<>>]
    ELSE [console |-> CorrectionOutput(given),
          calls |-> rendering \o CorrectionCalls(given, t) \o Show]

\* what the statements shared by plot_brainrsa_regions, _montage, _glass and
\* _surface print and call: the test, the correction block, then the calls
\* of rendering and plt.show()
BrainRun(imgarray, given, t, rendering) ==
    IF AllNaNTest(imgarray)
    THEN [console |-> <<MsgNoValid>>, calls |-> <<>>]
    ELSE [console |-> CorrectionOutput(given),
          calls |-> CorrectionCalls(given, t) \o rendering \o Show]

Call_plot_brainrsa_regions ==
    /\ fn = "none"
    /\ fn' = "plot_brainrsa_regions"
    /\ \E given \in BOOLEAN, t \in -1 .. MaxThreshold, background \in {"ch2", "bg"} :
          LET run == BrainRun(p, given, t, <<<<"plot_roi", ImgAfter(p, given, t)>>>>)
          IN  /\ threshold' = (IF given THEN t ELSE 0)
              /\ opts' = BrainOpts(given, <<6, 6, 6>>, background)
              /\ console' = console \o run.console
              /\ calls' = calls \o run.calls
    /\ ret' = None
    /\ UNCHANGED <<p, p0, mask, frame>>

Call_plot_brainrsa_montage ==
    /\ fn = "none"
    /\ fn' = "plot_brainrsa_montage"
    /\ \E given \in BOOLEAN, t \in -1 .. MaxThreshold, slice \in Slices,
          background \in {"ch2bet", "bg"} :
          LET run == BrainRun(p, given, t, MontageCalls(ImgAfter(p, given, t), slice))
          IN  /\ threshold' = (IF given THEN t ELSE 0)
              /\ opts' = BrainOpts(given, slice, background)
              /\ console' = console \o run.console
              /\ calls' = calls \o run.calls
    /\ ret' = None
    /\ UNCHANGED <<p, p0, mask, frame>>

Call_plot_brainrsa_glass ==
    /\ fn = "none"
    /\ fn' = "plot_brainrsa_glass"
    /\ \E given \in BOOLEAN, t \in -1 .. MaxThreshold :
          LET run == BrainRun(p, given, t,
                              <<<<"plot_glass_brain", ImgAfter(p, given, t)>>>>)
          IN  /\ threshold' = (IF given THEN t ELSE 0)
              /\ opts' = BrainOpts(given, <<6, 6, 6>>, "none")
              /\ console' = console \o run.console
              /\ calls' = calls \o run.calls
    /\ ret' = None
    /\ UNCHANGED <<p, p0, mask, frame>>

Call_plot_brainrsa_surface ==
    /\ fn = "none"
    /\ fn' = "plot_brainrsa_surface"
    /\ \E given \in BOOLEAN, t \in -1 .. MaxThreshold :
          LET run == BrainRun(p, given, t, SurfaceCalls(ImgAfter(p, given, t)))
          IN  /\ threshold' = (IF given THEN t ELSE 0)
              /\ opts' = BrainOpts(given, <<6, 6, 6>>, "none")
              /\ console' = console \o run.console
              /\ calls' = calls \o run.calls
    /\ ret' = None
    /\ UNCHANGED <<p, p0, mask, frame>>

\* plot_brainrsa_rlts has no parameter background and the module no global
\* of that name: the test  background == None  raises NameError, after the
\* correction when a threshold is given
Call_plot_brainrsa_rlts ==
    /\ fn = "none"
    /\ fn' = "plot_brainrsa_rlts"
    /\ \E given \in BOOLEAN, t \in -1 .. MaxThreshold, slice \in Slices :
          /\ threshold' = IF given THEN t ELSE 0
          /\ opts' = BrainOpts(given, slice, "none")
          /\ IF AllNaNTest(p)
                THEN /\ console' = Append(console, MsgNoValid)
                     /\ calls' = calls
                     /\ ret' = None
                ELSE /\ console' = console \o CorrectionOutput(given)
                     /\ calls' = calls \o CorrectionCalls(given, t)
                     /\ ret' = Raised("NameError")
    /\ UNCHANGED <<p, p0, mask, frame>>

NextBrain ==
    \/ Call_plot_brainrsa_regions
    \/ Call_plot_brainrsa_montage
    \/ Call_plot_brainrsa_glass
    \/ Call_plot_brainrsa_surface
    \/ Call_plot_brainrsa_rlts

SpecBrain == InitBrain /\ [][NextBrain]_vars

----------------------------------------------------------------------------
(* Claims about the plots of a brain volume, checked under SpecBrain *)

BrainFunctions ==
    {"plot_brainrsa_regions", "plot_brainrsa_montage", "plot_brainrsa_glass",
     "plot_brainrsa_surface", "plot_brainrsa_rlts"}

\* C12: a brain plot of a volume whose every voxel is NaN prints
\* "No Valid Results" and calls neither correct_by_threshold nor the
\* plotting library.
C12_AllNaNShortCircuit ==
    (fn \in BrainFunctions /\ \A m \in 1 .. Size(p0.shape) : isnan(p0.data[m])) =>
        /\ console = <<MsgNoValid>>
        /\ calls = <<>>

\* the calls that are given the image
ImageCalls ==
    {"plot_roi", "plot_stat_map x", "plot_stat_map y", "plot_stat_map z",
     "plot_glass_brain", "vol_to_surf"}

\* the places in calls of the calls to correct_by_threshold
CorrectionsAt == {m \in 1 .. Len(calls) : calls[m][1] = "correct_by_threshold"}

\* C15: in plot_brainrsa_regions, _montage, _glass and _surface, with a
\* threshold given, correct_by_threshold is called once, with that threshold
\* and before every call to the plotting library, which is given the
\* corrected image; with threshold None it is not called and the library is
\* given the image as it was passed.
C15_CorrectionFirst ==
    fn \in BrainFunctions \ {"plot_brainrsa_rlts"} =>
        /\ CorrectionsAt = (IF opts.given THEN {1} ELSE {})
        /\ opts.given => calls[1][2] = threshold
        /\ \A m \in 1 .. Len(calls) :
              calls[m][1] \in ImageCalls =>
                  calls[m][2].tag = (IF opts.given THEN "Nifti1Image" ELSE "path")

\* plot_brainrsa_montage with a threshold has corrected the volume, a voxel
\* of which was cleared, and then drawn the three cuts and shown them
C15_Witness ==
    /\ fn = "plot_brainrsa_montage"
    /\ opts.given
    /\ Len(calls) = 5
    /\ calls[1][1] = "correct_by_threshold"
    /\ calls[2][1] = "plot_stat_map x"
    /\ calls[2][2].arr # p0
    /\ calls[5][1] = "show"

\* C16: plot_brainrsa_rlts(img, threshold, slice) on a volume that is not all
\* NaN returns without raising, having called correct_by_threshold at most
\* once and having reached the region, the montage and the surface plots.
C16_RltsSubPlots ==
    (fn = "plot_brainrsa_rlts" /\ \E m \in 1 .. Size(p0.shape) : ~isnan(p0.data[m])) =>
        /\ ret = None
        /\ Cardinality(CorrectionsAt) <= 1
        /\ \A name \in {"plot_roi", "plot_surf_stat_map"} :
              \E m \in 1 .. Len(calls) : calls[m][1] = name
        /\ opts.slice # <<0, 0, 0>> =>
              \E m \in 1 .. Len(calls) :
                  calls[m][1] \in {"plot_stat_map x", "plot_stat_map y", "plot_stat_map z"}

----------------------------------------------------------------------------
(* The channel-by-time heat maps: plot_corrs_hotmap and plot_nps_hotmap.   *)
(* p is corrs (similarities); only its shape is modelled.  A curve is the  *)
(* row of the array it was read from, the column of the third axis (0, or  *)
(* "all" for a 2-D array) and the scipy operations applied to it, in order. *)

\* the largest number of channels
MaxChls == 3

\* the numbers of time-points (a cubic interp1d needs four points)
TimePoints == {4, 5}

\* corrs[i, :, 0] or corrs[i, :] as read from the array
Curve(i, column) == [row |-> i, column |-> column, ops |-> <<>>]

\* f = interp1d(x, y, kind='cubic'); y_soft[i] = f(x_soft)
Interp1d(curve) == [curve EXCEPT !.ops = Append(@, "interp1d")]

\* y_soft[i] = signal.filtfilt(b, a, y_soft[i])
FiltFilt(curve) == [curve EXCEPT !.ops = Append(@, "filtfilt")]

\* the labels the functions make when chllabels is None
NewLabel(i) ==
    ToString(i + 1) \o (IF i % 10 = 0 /\ i # 10 THEN "st"
                        ELSE IF i % 10 = 1 /\ i # 11 THEN "nd"
                        ELSE IF i % 10 = 2 /\ i # 12 THEN "rd"
                        ELSE "th")

ChlLabels(chllabels, nchls) ==
    IF chllabels = "None" THEN [i \in 1 .. nchls |-> NewLabel(i - 1)]
    ELSE [i \in 1 .. nchls |-> chllabels]

\* the body of the smoothing loop of plot_corrs_hotmap for channel i
\*   if len(corrs.shape) == 3:   interp1d
\*   elif len(corrs.shape) == 2: interp1d, filtfilt
SmoothCorrs(ndim, i) ==
    IF ndim = 3 THEN Interp1d(Curve(i, "0"))
    ELSE FiltFilt(Interp1d(Curve(i, "all")))

\* rlts of plot_corrs_hotmap
RltsCorrs(ndim, nchls, smooth) ==
    IF smooth THEN [i \in 1 .. nchls |-> SmoothCorrs(ndim, i - 1)]
    ELSE [i \in 1 .. nchls |-> Curve(i - 1, IF ndim = 3 THEN "0" ELSE "all")]

\* rlts of plot_nps_hotmap
RltsNps(nchls, smooth) ==
    IF smooth THEN [i \in 1 .. nchls |-> FiltFilt(Interp1d(Curve(i - 1, "all")))]
    ELSE [i \in 1 .. nchls |-> Curve(i - 1, "all")]

\* print(rlts.shape)
ShapeLine(nchls, t) == "(" \o ToString(nchls) \o ", " \o ToString(t) \o ")"

\* the calls from plt.imshow to plt.show()
HotmapCalls(rlts, colormap, figsize, labels) ==
    <<<<"imshow", rlts>>, <<"colormap", colormap>>, <<"set_size_inches", figsize>>,
      <<"colorbar", "Similarity">>, <<"yticks", labels>>, <<"show", "">>>>

HotOpts(smooth, chllabels, cmap, figsize, abs) ==
    [smooth |-> smooth, chllabels |-> chllabels, cmap |-> cmap, figsize |-> figsize,
     abs |-> abs]

InitHot ==
    /\ fn = "none"
    /\ \E nchls \in 1 .. MaxChls, ts \in TimePoints :
          p \in {[shape |-> <<nchls, ts>>], [shape |-> <<nchls, ts, 2>>]}
    /\ p0 = p
    /\ mask = NoMask
    /\ threshold = 0
    /\ opts = NoOpts
    /\ ret = Unset
    /\ console = <<>>
    /\ calls = <<>>
    /\ frame = NoFrame

\* of print(start_t, tstep, end_t) only the fact that a line is printed is
\* recorded; time_unit is the default
Call_plot_corrs_hotmap ==
    /\ fn = "none"
    /\ fn' = "plot_corrs_hotmap"
    /\ \E smooth \in BOOLEAN, chllabels \in {"None", "chl"}, cmap \in {"None", "cmap"},
          figsize \in {"None", "size"} :
          LET nchls == p.shape[1]
              ts == p.shape[2]
              rlts == RltsCorrs(Len(p.shape), nchls, smooth)
              colormap == IF cmap = "None" THEN "inferno" ELSE cmap
          IN  /\ opts' = HotOpts(smooth, chllabels, cmap, figsize, FALSE)
              /\ console' = console \o
                    <<"start_t tstep end_t",
                      ShapeLine(nchls, IF smooth THEN ts * 50 ELSE ts)>>
              /\ calls' = calls \o HotmapCalls(rlts, colormap, figsize,
                                               ChlLabels(chllabels, nchls))
    /\ ret' = None
    /\ UNCHANGED <<p, p0, mask, threshold, frame>>

\* similarities is [n_chls, ts]
Call_plot_nps_hotmap ==
    /\ fn = "none"
    /\ Len(p.shape) = 2
    /\ fn' = "plot_nps_hotmap"
    /\ \E smooth \in BOOLEAN, chllabels \in {"None", "chl"}, cmap \in {"None", "cmap"},
          figsize \in {"None", "size"}, abs \in BOOLEAN :
          LET nchls == p.shape[1]
              ts == p.shape[2]
              rlts == RltsNps(nchls, smooth)
              colormap == IF cmap = "None" THEN "viridis" ELSE cmap
          IN  /\ opts' = HotOpts(smooth, chllabels, cmap, figsize, abs)
              /\ console' = console \o
                    <<"start_t tstep end_t",
                      ShapeLine(nchls, IF smooth THEN ts * 50 ELSE ts)>>
              /\ calls' = calls \o HotmapCalls(rlts, colormap, figsize,
                                               ChlLabels(chllabels, nchls))
    /\ ret' = None
    /\ UNCHANGED <<p, p0, mask, threshold, frame>>

NextHot == Call_plot_corrs_hotmap \/ Call_plot_nps_hotmap

SpecHot == InitHot /\ [][NextHot]_vars

----------------------------------------------------------------------------
(* Claims about the heat maps, checked under SpecHot *)

\* C14: plot_corrs_hotmap with smooth=True renders, for every channel, the
\* curve cubic-interpolated and then low-pass filtered, for a 2-D corrs and
\* for a 3-D corrs alike; with smooth=False it renders the curves as read.
C14_SmoothFilters ==
    fn = "plot_corrs_hotmap" =>
        /\ calls[1][1] = "imshow"
        /\ Len(calls[1][2]) = p0.shape[1]
        /\ \A i \in 1 .. p0.shape[1] :
              calls[1][2][i].ops =
                  (IF opts.smooth THEN <<"interp1d", "filtfilt">> ELSE <<>>)

----------------------------------------------------------------------------
(* correct_by_threshold followed step by step: one step for every test of  *)
(* the while loop and one for every window of the scan.  frame holds the   *)
(* place in the code and the locals nsmall and m (the number of the        *)
(* window the scan has come to).                                           *)

\* thresholds are drawn from -1 .. MaxRunThreshold in this specification
MaxRunThreshold == 9

\* the side of a small volume is at most MaxSide
MaxSide == 3

\* the shapes: every shape with sides up to MaxSide, and three larger ones
RunShapes ==
    ((1 .. MaxSide) \X (1 .. MaxSide) \X (1 .. MaxSide))
        \cup {<<4, 4, 4>>, <<5, 4, 4>>, <<5, 5, 5>>}

\* the volumes: one value everywhere, or 0 everywhere but for one voxel of 1
RunVolumes(shape) ==
    {Full(shape, x) : x \in {Zero, One, NaN}}
        \cup {[shape |-> shape,
               data |-> [m \in 1 .. Size(shape) |-> IF m = at THEN One ELSE Zero]] :
                 at \in 1 .. Size(shape)}

\* the test of the while loop: nsmall*nsmall*nsmall < threshold
WhileTest(nsmall, t) == nsmall * nsmall * nsmall < t

\* NSmallStep without the increment
NSmallStep_NoIncrement(nsmall) == nsmall

\* the body of the while loop: nsmall = nsmall + 1
NSmallStep(nsmall) == nsmall + 1

\* the number of windows the three for loops visit
NWindows(shape, nlarge) ==
    RangeLen(shape[1], nlarge) * RangeLen(shape[2], nlarge) * RangeLen(shape[3], nlarge)

\* the corner <<i, j, k>> of the m-th window the loops visit
WindowAt(shape, nlarge, m) ==
    ScanAt(<<RangeLen(shape[1], nlarge), RangeLen(shape[2], nlarge),
             RangeLen(shape[3], nlarge)>>, m)

InitRun ==
    /\ fn = "none"
    /\ \E shape \in RunShapes : p \in RunVolumes(shape)
    /\ p0 = p
    /\ mask = NoMask
    /\ threshold = 0
    /\ opts = NoOpts
    /\ ret = Unset
    /\ console = <<>>
    /\ calls = <<>>
    /\ frame = NoFrame

\* the call, up to nsmall = 1
Begin_correct_by_threshold ==
    /\ frame.pc = "idle"
    /\ \E t \in -1 .. MaxRunThreshold : threshold' = t
    /\ frame' = [pc |-> "while", nsmall |-> 1, m |-> 0]
    /\ UNCHANGED <<fn, p, p0, mask, opts, ret, console, calls>>

\* a pass of the while loop
While_nsmall ==
    /\ frame.pc = "while"
    /\ WhileTest(frame.nsmall, threshold)
    /\ frame' = [frame EXCEPT !.nsmall = NSmallStep(frame.nsmall)]
    /\ UNCHANGED <<fn, p, p0, mask, threshold, opts, ret, console, calls>>

\* the while loop ends; nlarge = nsmall + 2 and the scan starts
While_exit ==
    /\ frame.pc = "while"
    /\ ~WhileTest(frame.nsmall, threshold)
    /\ frame' = [frame EXCEPT !.pc = "scan", !.m = 1]
    /\ UNCHANGED <<fn, p, p0, mask, threshold, opts, ret, console, calls>>

\* the body of the three for loops for the next window
Scan_window ==
    /\ frame.pc = "scan"
    /\ frame.m <= NWindows(p.shape, frame.nsmall + 2)
    /\ p' = Window(p, WindowAt(p.shape, frame.nsmall + 2, frame.m),
                   frame.nsmall, frame.nsmall + 2, threshold)
    /\ frame' = [frame EXCEPT !.m = @ + 1]
    /\ UNCHANGED <<fn, p0, mask, threshold, opts, ret, console, calls>>

\* the loops are exhausted: print("finished correction"); return img
Return_correct_by_threshold ==
    /\ frame.pc = "scan"
    /\ frame.m > NWindows(p.shape, frame.nsmall + 2)
    /\ fn' = "correct_by_threshold"
    /\ ret' = SameObject
    /\ console' = Append(console, "finished correction")
    /\ frame' = [frame EXCEPT !.pc = "done"]
    /\ UNCHANGED <<p, p0, mask, threshold, opts, calls>>

\* the steps of a call that has begun
RunSteps == While_nsmall \/ While_exit \/ Scan_window \/ Return_correct_by_threshold

NextRun == Begin_correct_by_threshold \/ RunSteps

\* frame after the next step of a call that has begun: every step of
\* RunSteps changes frame in this way and no other step does
NextFrame ==
    IF frame.pc = "while"
    THEN IF WhileTest(frame.nsmall, threshold)
         THEN [frame EXCEPT !.nsmall = NSmallStep(frame.nsmall)]
         ELSE [frame EXCEPT !.pc = "scan", !.m = 1]
    ELSE IF frame.m <= NWindows(p.shape, frame.nsmall + 2)
         THEN [frame EXCEPT !.m = @ + 1]
         ELSE [frame EXCEPT !.pc = "done"]

\* a step of the call, seen in frame alone
Advance == frame.pc \in {"while", "scan"} /\ frame' = NextFrame

\* a call that has begun goes on executing: the interpreter takes the next
\* step of the running call whenever that step changes the place in the
\* code or a local (fairness is stated on frame, which every step of the
\* call sets, so that it does not depend on the contents of img)
SpecRun == InitRun /\ [][NextRun]_vars /\ WF_frame(Advance)

----------------------------------------------------------------------------
(* Claims about the steps of correct_by_threshold, checked under SpecRun *)

\* C19: a call of correct_by_threshold, whatever the shape and the integer
\* threshold (0 and negative ones included), comes to its return; and when
\* it has returned with threshold <= 1 the map equals the map passed.
C19_Terminates ==
    /\ [](frame.pc = "while" => <>(frame.pc = "done"))
    /\ [](frame.pc = "done" /\ threshold <= 1 => p = p0)

\* a call with threshold -1 on the 3 x 3 x 3 map whose only voxel that is
\* not 0 is the centre has scanned its window and returned the map as passed
C19_Witness ==
    /\ frame.pc = "done"
    /\ threshold = -1
    /\ p0.shape = <<3, 3, 3>>
    /\ At(p0, <<1, 1, 1>>) = One
    /\ \A v \in Vox(p0.shape) \ {<<1, 1, 1>>} : At(p0, v) = Zero
    /\ frame.m = 2
    /\ p = p0

====
